---- MODULE Spec2Model ----
(***************************************************************************)
(* A model of becquerel's core: the Spectrum class (core/spectrum.py) and  *)
(* the rebinning kernel (core/rebin.py).                                   *)
(*                                                                         *)
(* Numbers.  The rebinning kernel works on floats; the model computes the  *)
(* same expressions in exact arithmetic (rounding is not modelled).  Bin   *)
(* edges are integers.  A slope is an integer multiple s of the slope unit *)
(* d = 0.5e-6, so that the code's threshold 1e-6 is FlatThreshold = 2      *)
(* units.  A count density or a number of counts is a record               *)
(* [c |-> a, s |-> b] standing for the real number (a + b*d) / (2*Den),    *)
(* where Den is the least common multiple of the possible bin widths:      *)
(* every quantity the kernel computes has this form with integers a, b.    *)
(***************************************************************************)
EXTENDS Integers, Sequences, FiniteSets, TLC

VARIABLES
    in_spectrum,    \* _rebin: input counts per bin
    in_edges,       \* _rebin: input bin edges
    out_edges,      \* _rebin: output bin edges
    slopes,         \* _rebin: slope of each input bin (units of 0.5e-6)
    out_spectrum,   \* _rebin: the output array being filled
    in_idx,         \* _rebin: the input-bin cursor (nb.u4)
    out_idx,        \* _rebin: the output-bin index of the for loop
    pc,             \* _rebin: position in the code
    beyond,         \* _rebin: what the memory after in_edges holds
    scans,          \* _rebin: for every output bin scanned so far, where
                    \* its scan started and the input bins it visited
    specs,          \* the Spectrum objects the caller holds, by variable
    last,           \* the last Spectrum call: operands, arguments, outcome
    budget,         \* Spectrum calls still to be made after construction
    edges_id        \* which array object each held Spectrum's bin_edges_kev
                    \* is (under 0: that of the Spectrum just returned);
                    \* 0 where there is no array

rebinVars == <<in_spectrum, in_edges, out_edges, slopes, out_spectrum,
               in_idx, out_idx, pc, beyond, scans>>

spectrumVars == <<specs, last, budget, edges_id>>

vars == <<in_spectrum, in_edges, out_edges, slopes, out_spectrum,
          in_idx, out_idx, pc, beyond, scans, specs, last, budget,
          edges_id>>

----------------------------------------------------------------------------
(* Bounds of the model and sample inputs.                                  *)

MaxEdge == 3        \* bin edges are drawn from 0..MaxEdge
MaxIn == 2          \* at most MaxIn input bins
MaxOut == 2         \* at most MaxOut output bins
MaxOverrun == 1     \* reads of the edge search followed past the array end
MaxOps == 2         \* Spectrum calls in a sequence, after construction

Counts == {1, 10}           \* counts of an input bin
Slopes == {-3, 0, 1}        \* slopes: -1.5e-6, 0 and 0.5e-6

FlatThreshold == 2          \* 1e-6, in slope units of 0.5e-6

----------------------------------------------------------------------------
(* Arithmetic helpers.                                                     *)

Abs(x) == IF x < 0 THEN -x ELSE x

Min(a, b) == IF a < b THEN a ELSE b

Max(a, b) == IF a > b THEN a ELSE b

RECURSIVE Gcd(_, _)
Gcd(a, b) == IF b = 0 THEN Abs(a) ELSE Gcd(b, a % b)

RECURSIVE LcmUpTo(_)
LcmUpTo(n) == IF n <= 1 THEN 1
              ELSE LET l == LcmUpTo(n - 1) IN (l * n) \div Gcd(l, n)

\* Common denominator of the bin widths 1..MaxEdge.
Den == LcmUpTo(MaxEdge)

Num(a, b) == [c |-> a, s |-> b]

Zero == Num(0, 0)

NumAdd(x, y) == Num(x.c + y.c, x.s + y.s)

NumSub(x, y) == Num(x.c - y.c, x.s - y.s)

\* A whole number of counts as a Num.
FromCounts(n) == Num(2 * Den * n, 0)

RECURSIVE NumSum(_)
NumSum(seq) == IF seq = <<>> THEN Zero
               ELSE NumAdd(Head(seq), NumSum(Tail(seq)))

----------------------------------------------------------------------------
(* Values of the Spectrum model.                                           *)
(*                                                                         *)
(* A float is an exact rational [n |-> numerator, d |-> denominator] in    *)
(* lowest terms with d > 0, or NaN or Inf.  An uncertain number (a UFloat  *)
(* of the uncertainties package) is [v |-> nominal value, var |-> square   *)
(* of its standard deviation], which keeps square roots out of the model:  *)
(* sigma = |k| * s is var = k^2 * s^2.  Uncertainties are propagated as    *)
(* for independent quantities.  Python's None is the record None.          *)

None == [tag |-> "None"]

NaN == [tag |-> "nan"]

Inf == [tag |-> "inf"]

R(n, d) ==
    LET g == Gcd(Abs(n), Abs(d))
        sg == IF d < 0 THEN -1 ELSE 1
    IN  [n |-> sg * (n \div g), d |-> sg * (d \div g)]

RI(n) == [n |-> n, d |-> 1]

IsNum(x) == DOMAIN x = {"n", "d"}

RAdd(a, b) == R(a.n * b.d + b.n * a.d, a.d * b.d)

RSub(a, b) == R(a.n * b.d - b.n * a.d, a.d * b.d)

RMul(a, b) == R(a.n * b.n, a.d * b.d)

\* a / b for b # 0
RDiv(a, b) == R(a.n * b.d, a.d * b.n)

RLt(a, b) == a.n * b.d < b.n * a.d

RLe(a, b) == a.n * b.d <= b.n * a.d

RMax(a, b) == IF RLt(a, b) THEN b ELSE a

\* int(x): truncation towards zero
RTrunc(a) == IF a.n >= 0 THEN a.n \div a.d ELSE -((-a.n) \div a.d)

\* arithmetic on squared standard deviations, where NaN propagates
VarAdd(x, y) == IF x = NaN \/ y = NaN THEN NaN ELSE RAdd(x, y)

VarMul(x, k) == IF x = NaN THEN NaN ELSE RMul(x, k)

UFloat(v, var) == [v |-> v, var |-> var]

IsUFloat(x) == DOMAIN x = {"v", "var"}

\* unumpy.nominal_values, on one element
Nominal(x) == IF IsUFloat(x) THEN x.v ELSE x

UAdd(x, y) == UFloat(RAdd(x.v, y.v), VarAdd(x.var, y.var))

USub(x, y) == UFloat(RSub(x.v, y.v), VarAdd(x.var, y.var))

\* x * m for an uncertain number x and a multiplier m, plain or uncertain
UMul(x, m) ==
    IF IsUFloat(m)
    THEN UFloat(RMul(x.v, m.v),
                VarAdd(VarMul(x.var, RMul(m.v, m.v)),
                       VarMul(m.var, RMul(x.v, x.v))))
    ELSE UFloat(RMul(x.v, m), VarMul(x.var, RMul(m, m)))

\* 1 / m for a nonzero finite m, plain or uncertain
Reciprocal(m) ==
    IF IsUFloat(m)
    THEN UFloat(RDiv(RI(1), m.v),
                VarMul(m.var, RDiv(RI(1), RMul(RMul(m.v, m.v), RMul(m.v, m.v)))))
    ELSE RDiv(RI(1), m)

RECURSIVE USum(_)
USum(seq) == IF seq = <<>> THEN UFloat(RI(0), RI(0))
             ELSE UAdd(Head(seq), USum(Tail(seq)))

\* a Python list or numpy array
Array(seq) == [array |-> seq]

\* an exception raised instead of a value
Raise(e) == [err |-> e]

IsErr(x) == "err" \in DOMAIN x

----------------------------------------------------------------------------
(* core/spectrum.py: Spectrum.__init__                                     *)

\* core/utils.py handle_uncs: which error it raises, "" when none
handle_uncs_error(x_array, x_uncs) ==
    IF (\E i \in 1..Len(x_array.array) : IsUFloat(x_array.array[i]))
         /\ (\E i \in 1..Len(x_array.array) : ~IsUFloat(x_array.array[i]))
    THEN "UncertaintiesError"
    ELSE IF x_uncs # None /\ (\E i \in 1..Len(x_array.array) : IsUFloat(x_array.array[i]))
         THEN "UncertaintiesError"
         ELSE ""

\* lambda x: np.maximum(np.sqrt(x), 1), squared; x >= 0 here
SqrtUncSquared(x) == RMax(x, RI(1))

\* lambda x: np.nan
NanUnc(x) == NaN

\* core/utils.py handle_uncs: the array of uncertain numbers, the default
\* uncertainty being one of the two lambdas above
handle_uncs(x_array, x_uncs, default_unc_func) ==
    Array([i \in 1..Len(x_array.array) |->
        IF IsUFloat(x_array.array[i]) THEN x_array.array[i]
        ELSE IF x_uncs # None
             THEN UFloat(x_array.array[i],
                         IF x_uncs.array[i] = NaN THEN NaN
                         ELSE RMul(x_uncs.array[i], x_uncs.array[i]))
             ELSE UFloat(x_array.array[i],
                         IF default_unc_func = "sqrt"
                         THEN SqrtUncSquared(x_array.array[i])
                         ELSE NanUnc(x_array.array[i]))])

\* np.any(np.asarray(counts) < 0)
AnyNegative(arr) ==
    \E i \in 1..Len(arr.array) : RLt(Nominal(arr.array[i]), RI(0))

\* np.any(np.diff(bin_edges_kev) <= 0)
AnyNotIncreasing(edges) ==
    \E i \in 1..(Len(edges.array) - 1) :
        edges.array[i + 1] - edges.array[i] <= 0

\* the data check kept to counts and cps both missing
DataError_OnlyNeither(kw) ==
    IF kw.counts = None /\ kw.cps = None THEN "SpectrumError"
    ELSE IF kw.counts # None
         THEN IF Len(kw.counts.array) = 0 THEN "SpectrumError"
              ELSE IF kw.uncs = None /\ AnyNegative(kw.counts)
                   THEN "SpectrumError"
                   ELSE handle_uncs_error(kw.counts, kw.uncs)
         ELSE IF Len(kw.cps.array) = 0 THEN "SpectrumError"
              ELSE handle_uncs_error(kw.cps, kw.uncs)

\* lines 125-143: the error the data arguments raise, "" when none
DataError(kw) ==
    IF ~((kw.counts = None) # (kw.cps = None)) THEN "SpectrumError"
    ELSE IF kw.counts # None
         THEN IF Len(kw.counts.array) = 0 THEN "SpectrumError"
              ELSE IF kw.uncs = None /\ AnyNegative(kw.counts)
                   THEN "SpectrumError"
                   ELSE handle_uncs_error(kw.counts, kw.uncs)
         ELSE IF Len(kw.cps.array) = 0 THEN "SpectrumError"
              ELSE handle_uncs_error(kw.cps, kw.uncs)

\* lines 136-144: self._counts and self._cps
DataFields(kw) ==
    IF kw.counts # None
    THEN [_counts |-> handle_uncs(kw.counts, kw.uncs, "sqrt"),
          _cps |-> None]
    ELSE [_counts |-> None,
          _cps |-> handle_uncs(kw.cps, kw.uncs, "nan")]

\* lines 151-159: the error the bin edges raise, "" when none; n is len(self)
EdgesError(kw, n) ==
    IF kw.bin_edges_kev = None THEN ""
    ELSE IF Len(kw.bin_edges_kev.array) # n + 1 THEN "SpectrumError"
         ELSE IF AnyNotIncreasing(kw.bin_edges_kev) THEN "ValueError"
              ELSE ""

\* lines 161-169: livetime above a realtime given as an argument
RealtimeError(kw) ==
    IF kw.realtime # None /\ kw.livetime # None
         /\ RLt(kw.realtime, kw.livetime)
    THEN "ValueError"
    ELSE ""

\* core/utils.py handle_datetime, on a datetime or None: timestamps are
\* seconds since an epoch
handle_datetime(t) == t

\* lines 176-186: the error the three time arguments raise, "" when none
TimesError(kw) ==
    LET start == handle_datetime(kw.start_time)
        stop == handle_datetime(kw.stop_time)
    IN  IF kw.realtime # None /\ stop # None /\ start # None
        THEN "SpectrumError"
        ELSE IF start # None /\ stop # None /\ RLt(stop, start)
             THEN "ValueError"
             ELSE ""

\* the derivation with start_time taken to be stop_time + realtime
TimeFields_StartLate(kw) ==
    LET start == handle_datetime(kw.start_time)
        stop == handle_datetime(kw.stop_time)
    IN  IF start # None /\ stop # None
        THEN [realtime |-> RSub(stop, start), start_time |-> start,
              stop_time |-> stop]
        ELSE IF start # None /\ kw.realtime # None
             THEN [realtime |-> kw.realtime, start_time |-> start,
                   stop_time |-> RAdd(start, kw.realtime)]
             ELSE IF kw.realtime # None /\ stop # None
                  THEN [realtime |-> kw.realtime,
                        start_time |-> RAdd(stop, kw.realtime),
                        stop_time |-> stop]
                  ELSE [realtime |-> kw.realtime, start_time |-> start,
                        stop_time |-> stop]

\* lines 161-193: realtime, start_time and stop_time, the third derived
\* from the two that are given
TimeFields(kw) ==
    LET start == handle_datetime(kw.start_time)
        stop == handle_datetime(kw.stop_time)
    IN  IF start # None /\ stop # None
        THEN [realtime |-> RSub(stop, start), start_time |-> start,
              stop_time |-> stop]
        ELSE IF start # None /\ kw.realtime # None
             THEN [realtime |-> kw.realtime, start_time |-> start,
                   stop_time |-> RAdd(start, kw.realtime)]
             ELSE IF kw.realtime # None /\ stop # None
                  THEN [realtime |-> kw.realtime,
                        start_time |-> RSub(stop, kw.realtime),
                        stop_time |-> stop]
                  ELSE [realtime |-> kw.realtime, start_time |-> start,
                        stop_time |-> stop]

\* lines 195-207: fields still None are taken from the file object
FromFile(own, fileobj, field) ==
    IF fileobj # None /\ own = None THEN fileobj[field] ELSE own

\* Spectrum.__init__ (lines 82-211): the new object, or the exception
Spectrum(kw) ==
    IF DataError(kw) # "" THEN Raise(DataError(kw))
    ELSE LET data == DataFields(kw)
             n == IF kw.counts # None THEN Len(kw.counts.array) ELSE Len(kw.cps.array)
         IN  IF EdgesError(kw, n) # "" THEN Raise(EdgesError(kw, n))
             ELSE IF RealtimeError(kw) # "" THEN Raise(RealtimeError(kw))
             ELSE IF TimesError(kw) # "" THEN Raise(TimesError(kw))
             ELSE LET t == TimeFields(kw)
                      f == kw.input_file_object
                  IN  [_counts |-> data._counts,
                       _cps |-> data._cps,
                       livetime |-> FromFile(kw.livetime, f, "livetime"),
                       bin_edges_kev |-> kw.bin_edges_kev,
                       realtime |-> FromFile(t.realtime, f, "realtime"),
                       start_time |->
                           FromFile(t.start_time, f, "collection_start"),
                       stop_time |->
                           FromFile(t.stop_time, f, "collection_stop"),
                       _infileobject |-> f]

\* the keyword arguments of Spectrum(...), None where not given
Kwargs(counts, cps, uncs, edges, fileobj, livetime, realtime, start, stop) ==
    [counts |-> counts, cps |-> cps, uncs |-> uncs, bin_edges_kev |-> edges,
     input_file_object |-> fileobj, livetime |-> livetime,
     realtime |-> realtime, start_time |-> start, stop_time |-> stop]


----------------------------------------------------------------------------
(* core/spectrum.py: properties and operators                              *)

\* something that is not a Spectrum, as the other operand
NotASpectrum == [tag |-> "object"]

IsSpectrum(x) == "_counts" \in DOMAIN x

\* is_calibrated (lines 402-410)
is_calibrated(self) == self.bin_edges_kev # None

\* the counts property (lines 240-261): the error it raises, "" when none
counts_error(self) ==
    IF self._counts = None /\ self.livetime = None THEN "SpectrumError"
    ELSE ""

\* the counts property (lines 240-261)
counts(self) ==
    IF self._counts # None THEN self._counts
    ELSE Array([i \in 1..Len(self._cps.array) |->
                   UMul(self._cps.array[i], self.livetime)])

\* the cps property (lines 283-304): the error it raises, "" when none;
\* counts / None is a TypeError, turned into a SpectrumError, and
\* counts / 0.0 is a ZeroDivisionError of the uncertainties package
cps_error(self) ==
    IF self._cps # None THEN ""
    ELSE IF self.livetime = None THEN "SpectrumError"
         ELSE IF self.livetime = RI(0) THEN "ZeroDivisionError"
              ELSE ""

\* the cps property (lines 283-304)
cps(self) ==
    IF self._cps # None THEN self._cps
    ELSE Array([i \in 1..Len(self._counts.array) |->
                   UMul(self._counts.array[i], RDiv(RI(1), self.livetime))])

\* reading s.counts (lines 240-261): the array, or the exception
counts_read(self) ==
    IF counts_error(self) # "" THEN Raise(counts_error(self))
    ELSE counts(self)

\* reading s.cps (lines 283-304): the array, or the exception
cps_read(self) ==
    IF cps_error(self) # "" THEN Raise(cps_error(self))
    ELSE cps(self)

\* __len__ (lines 447-457)
SpecLen(self) ==
    IF counts_error(self) = "" THEN Len(counts(self).array)
    ELSE Len(cps(self).array)

\* the checks of the operands without the comparison of the bin edges
_add_sub_error_checking_AnyEdges(self, other) ==
    IF ~IsSpectrum(other) THEN "TypeError"
    ELSE IF SpecLen(self) # SpecLen(other) THEN "SpectrumError"
    ELSE IF is_calibrated(self) # is_calibrated(other) THEN "SpectrumError"
    ELSE ""

\* _add_sub_error_checking (lines 548-576): the error raised, "" when none
_add_sub_error_checking(self, other) ==
    IF ~IsSpectrum(other) THEN "TypeError"
    ELSE IF SpecLen(self) # SpecLen(other) THEN "SpectrumError"
    ELSE IF is_calibrated(self) # is_calibrated(other) THEN "SpectrumError"
    ELSE IF is_calibrated(self) /\ is_calibrated(other)
              /\ self.bin_edges_kev # other.bin_edges_kev
         THEN "NotImplementedError"
         ELSE ""

\* truth value of a livetime: None and 0.0 are false
Truthy(x) == x # None /\ x # RI(0)

\* what an operator call yields: the Spectrum returned or the exception
\* raised, and the SpectrumWarning issued on the way ("" when none)
Outcome(res, warning) == [res |-> res, warn |-> warning]

NoKwargs == Kwargs(None, None, None, None, None, None, None, None, None)

\* __add__ (lines 459-500)
__add__(self, other) ==
    IF _add_sub_error_checking(self, other) # ""
    THEN Outcome(Raise(_add_sub_error_checking(self, other)), "")
    ELSE IF (self._counts = None) # (other._counts = None)
    THEN Outcome(Raise("SpectrumError"), "")
    ELSE IF self._counts # None /\ other._counts # None
    THEN LET sum == Array([i \in 1..Len(self._counts.array) |->
                        UAdd(counts(self).array[i], counts(other).array[i])])
             both == Truthy(self.livetime) /\ Truthy(other.livetime)
         IN  Outcome(
               Spectrum([NoKwargs EXCEPT
                   !.counts = sum,
                   !.livetime = IF both
                                THEN RAdd(self.livetime, other.livetime)
                                ELSE None,
                   !.bin_edges_kev = self.bin_edges_kev]),
               IF both THEN "" ELSE "livetime was set to None")
    ELSE Outcome(
           Spectrum([NoKwargs EXCEPT
               !.cps = Array([i \in 1..Len(self._cps.array) |->
                           UAdd(cps(self).array[i], cps(other).array[i])]),
               !.bin_edges_kev = self.bin_edges_kev]),
           "")

\* the first exception of cps(self) - cps(other), "" when none
CpsDifferenceError(self, other) ==
    IF cps_error(self) # "" THEN cps_error(self) ELSE cps_error(other)

\* the first exception of counts_vals(self) - counts_vals(other)
CountsDifferenceError(self, other) ==
    IF counts_error(self) # "" THEN counts_error(self)
    ELSE counts_error(other)

\* __sub__ (lines 502-546)
__sub__(self, other) ==
    IF _add_sub_error_checking(self, other) # ""
    THEN Outcome(Raise(_add_sub_error_checking(self, other)), "")
    ELSE IF CpsDifferenceError(self, other) = ""
    THEN Outcome(
           Spectrum([NoKwargs EXCEPT
               !.cps = Array([i \in 1..SpecLen(self) |->
                           USub(cps(self).array[i], cps(other).array[i])]),
               !.bin_edges_kev = self.bin_edges_kev]),
           IF self._cps = None \/ other._cps = None
           THEN "spectra have been converted to CPS" ELSE "")
    ELSE IF CpsDifferenceError(self, other) # "SpectrumError"
    THEN Outcome(Raise(CpsDifferenceError(self, other)), "")
    ELSE IF CountsDifferenceError(self, other) # ""
    THEN Outcome(Raise("SpectrumError"), "")
    ELSE Outcome(
           Spectrum([NoKwargs EXCEPT
               !.counts = Array([i \in 1..SpecLen(self) |->
                              RSub(counts(self).array[i].v,
                                   counts(other).array[i].v)]),
               !.uncs = Array([i \in 1..SpecLen(self) |-> NaN]),
               !.bin_edges_kev = self.bin_edges_kev]),
           "livetimes have been ignored")

\* the scaling factor is a number: a float or a UFloat
IsScalar(k) == IsNum(k) \/ IsUFloat(k) \/ k = NaN \/ k = Inf

\* lines 629-645 without the two tests for zero
ScalingError_ZeroAllowed(k) ==
    IF ~IsScalar(k) THEN "TypeError"
    ELSE LET nominal == Nominal(k)
         IN  IF nominal = Inf \/ nominal = NaN
             THEN "ValueError"
             ELSE ""

\* lines 629-645: the error the scaling factor raises, "" when none
ScalingError(k) ==
    IF ~IsScalar(k) THEN "TypeError"
    ELSE LET nominal == Nominal(k)
         IN  IF nominal = RI(0) \/ nominal = Inf \/ nominal = NaN
             THEN "ValueError"
             ELSE ""

\* _mul_div (lines 618-656), behind __mul__, __rmul__, __div__, __truediv__
_mul_div(self, scaling_factor, div) ==
    IF ScalingError(scaling_factor) # ""
    THEN Outcome(Raise(ScalingError(scaling_factor)), "")
    ELSE LET multiplier == IF div THEN Reciprocal(scaling_factor)
                           ELSE scaling_factor
         IN  IF self._counts # None
             THEN Outcome(
                    Spectrum([NoKwargs EXCEPT
                        !.counts =
                            Array([i \in 1..Len(self._counts.array) |->
                                UMul(counts(self).array[i], multiplier)]),
                        !.bin_edges_kev = self.bin_edges_kev]),
                    "")
             ELSE Outcome(
                    Spectrum([NoKwargs EXCEPT
                        !.cps =
                            Array([i \in 1..Len(self._cps.array) |->
                                UMul(cps(self).array[i], multiplier)]),
                        !.bin_edges_kev = self.bin_edges_kev]),
                    "")

\* copy (lines 438-445): a deep copy
copy(self) == Outcome(self, "")


\* np.sum over one row of the padded array: channels lo..hi of data
RowSum(data, lo, hi) == USum(SubSeq(data.array, lo, hi))

\* bin_edges_kev[::f]
Stride(edges, f) ==
    [j \in 1..((Len(edges.array) - 1) \div f + 1) |->
        edges.array[(j - 1) * f + 1]]

\* lines 774-780 of combine_bins: the edges of the combined bins
combined_bin_edges(self, f) ==
    IF ~is_calibrated(self) THEN None
    ELSE LET strided == Stride(self.bin_edges_kev, f)
             final == self.bin_edges_kev.array[Len(self.bin_edges_kev.array)]
         IN  IF strided[Len(strided)] # final
             THEN Array(Append(strided, final))
             ELSE Array(strided)

\* combine_bins (lines 742-785), f an int
combine_bins(self, f) ==
    IF f = 0 THEN Outcome(Raise("ZeroDivisionError"), "")
    ELSE IF f < 0 THEN Outcome(Raise("ValueError"), "")
    ELSE LET n == SpecLen(self)
             data == IF self._counts = None THEN cps(self) ELSE counts(self)
             rows == (n + f - 1) \div f
             combined_counts ==
                 Array([k \in 1..rows |->
                     RowSum(data, (k - 1) * f + 1, Min(k * f, n))])
         IN  Outcome(
               Spectrum([NoKwargs EXCEPT
                   !.counts = IF self._counts = None THEN None
                              ELSE combined_counts,
                   !.cps = IF self._counts = None THEN combined_counts
                           ELSE None,
                   !.bin_edges_kev = combined_bin_edges(self, f),
                   !.input_file_object = self._infileobject,
                   !.livetime = self.livetime]),
               "")

\* a Python string, handle_livetime.lower() applied
Str(s) == [str |-> s]

RECURSIVE SeqMax(_)
SeqMax(seq) == IF seq = <<>> THEN 0 ELSE Max(Head(seq), SeqMax(Tail(seq)))

\* self.counts_vals.astype(int)
old_counts(self) ==
    [i \in 1..Len(self._counts.array) |-> RTrunc(self._counts.array[i].v)]

\* the arrays np.random.binomial(old_counts, 1. / f) can return: with
\* probability 1 every count is kept, otherwise any number of them
BinomialDraws(old, f) ==
    IF f = RI(1) THEN {old}
    ELSE {d \in [1..Len(old) -> 0..SeqMax(old)] :
             \A i \in 1..Len(old) : d[i] <= old[i]}

\* lines 690-698 of downsample: the error of the arguments, "" when none
DownsampleError(self, f, handle_livetime) ==
    IF self._counts = None THEN "SpectrumError"
    ELSE IF RLt(f, RI(1)) THEN "ValueError"
    ELSE IF handle_livetime # None /\ handle_livetime # Str("preserve")
              /\ handle_livetime # Str("reduce")
    THEN "ValueError"
    ELSE IF handle_livetime = Str("reduce") /\ self.livetime = None
    THEN "TypeError"
    ELSE IF \E i \in 1..Len(self._counts.array) : old_counts(self)[i] < 0
    THEN "ValueError"
    ELSE ""

\* downsample (lines 658-706), new_counts being the binomial draw
downsample(self, f, handle_livetime, new_counts) ==
    IF DownsampleError(self, f, handle_livetime) # ""
    THEN Outcome(Raise(DownsampleError(self, f, handle_livetime)), "")
    ELSE Outcome(
           Spectrum([NoKwargs EXCEPT
               !.counts =
                   Array([i \in 1..Len(new_counts) |-> RI(new_counts[i])]),
               !.bin_edges_kev = self.bin_edges_kev,
               !.livetime = IF handle_livetime = None THEN None
                            ELSE IF handle_livetime = Str("preserve")
                                 THEN self.livetime
                                 ELSE RDiv(self.livetime, f)]),
           "")

\* the energy calibration capability, cal.ch2kev, at the channel position
\* twice_ch / 2: a line of positive slope, with integer energies at the
\* half-integer channel positions
ch2kev(cal, twice_ch) == cal.offset + cal.half_gain * (twice_ch + 1)

\* apply_calibration (lines 708-717): self after the call
apply_calibration(self, cal) ==
    [self EXCEPT !.bin_edges_kev =
        Array([i \in 1..(SpecLen(self) + 1) |->
                  ch2kev(cal, 2 * (i - 1) - 1)])]

\* calibrate_like (lines 719-735): self after the call, or the exception
calibrate_like(self, other) ==
    IF is_calibrated(other)
    THEN [self EXCEPT !.bin_edges_kev = other.bin_edges_kev]
    ELSE Raise("UncalibratedError")

\* rm_calibration (lines 737-740): self after the call
rm_calibration(self) == [self EXCEPT !.bin_edges_kev = None]

----------------------------------------------------------------------------
(* The caller of the Spectrum class: it constructs spectra, keeps them in  *)
(* variables, and calls their methods and operators.                       *)

\* the caller's variables
Slots == {1, 2}

NoSpecs == [slot \in Slots |-> None]

\* a call as it is recorded: the method, the variable and value of self
\* before the call, the other operand, the arguments, what was returned or
\* raised, and the warning issued
Call(op, slot, self, other, arg, arg2, res, warn) ==
    [op |-> op, slot |-> slot, self |-> self, other |-> other, arg |-> arg,
     arg2 |-> arg2, res |-> res, warn |-> warn]

NoCall == Call("none", 0, None, None, None, None, None, "")

Held == {slot \in Slots : specs[slot] # None}

\* an exception that is raised ends the caller's run
Running == ~IsErr(last.res)

\* what a caller may pass as the other operand: one of its spectra, or
\* (0) something else
Others == Held \cup {0}

Other(b) == IF b = 0 THEN NotASpectrum ELSE specs[b]

\* no _rebin call is in progress
RebinIdle ==
    /\ in_spectrum = <<>>
    /\ in_edges = <<>>
    /\ out_edges = <<>>
    /\ slopes = <<>>
    /\ out_spectrum = <<>>
    /\ in_idx = 0
    /\ out_idx = 0
    /\ pc = "idle"
    /\ beyond = <<>>
    /\ scans = <<>>

\* spec = Spectrum(**kw), into the caller's next free variable of slots
\* no Spectrum holds an array of bin edges
NoArrays == [s \in Slots \cup {0} |-> 0]

\* the array object a new allocation gives: one that no held Spectrum has
FreshId ==
    CHOOSE k \in 1..(Cardinality(Slots) + 1) :
        /\ \A s \in Slots : edges_id[s] # k
        /\ \A j \in 1..(k - 1) : \E s \in Slots : edges_id[s] = j

\* line 159, np.array(bin_edges_kev, dtype=float): a new array, whatever
\* object the argument is
np_array(id, fresh) == fresh

\* line 445, deepcopy(self): a new array
deepcopy(id, fresh) == fresh

\* line 733 without .copy(): the array of other itself
edges_copy_Shared(id, fresh) == id

\* line 733, other.bin_edges_kev.copy(): a new array
edges_copy(id, fresh) == fresh

\* the array of the bin edges a call returns in the Spectrum res
ReturnedId(op, slot, res) ==
    IF ~IsSpectrum(res) THEN 0
    ELSE IF res.bin_edges_kev = None THEN 0
    ELSE IF op = "copy" THEN deepcopy(edges_id[slot], FreshId)
    ELSE np_array(edges_id[slot], FreshId)

Construct(KW, slots) ==
    /\ Running
    /\ \E slot \in slots, kw \in KW :
          /\ specs[slot] = None
          /\ \A t \in Slots : t < slot => specs[t] # None
          /\ LET made == Spectrum(kw)
             IN  /\ specs' = IF IsErr(made) THEN specs
                             ELSE [specs EXCEPT ![slot] = made]
                 /\ last' = Call("construct", slot, None, None, kw, None,
                                 made, "")
                 /\ edges_id' =
                       [edges_id EXCEPT
                          ![slot] = IF IsErr(made) THEN @
                                    ELSE ReturnedId("construct", slot, made),
                          ![0] = 0]
    /\ UNCHANGED <<budget, rebinVars>>

\* a call that returns a new Spectrum and leaves the caller's variables
Returns(op, slot, other, arg, arg2, out) ==
    /\ last' = Call(op, slot, specs[slot], other, arg, arg2, out.res,
                    out.warn)
    /\ edges_id' = [edges_id EXCEPT ![0] = ReturnedId(op, slot, out.res)]
    /\ budget' = budget - 1
    /\ UNCHANGED <<specs, rebinVars>>

\* a + b
Add ==
    /\ Running
    /\ budget > 0
    /\ \E slot \in Held, b \in Others :
          Returns("add", slot, Other(b), None, None,
                  __add__(specs[slot], Other(b)))

\* a - b
Sub ==
    /\ Running
    /\ budget > 0
    /\ \E slot \in Held, b \in Others :
          Returns("sub", slot, Other(b), None, None,
                  __sub__(specs[slot], Other(b)))

\* scaling factors: plain and uncertain, good and bad
Scalars ==
    <<RI(2), RI(-1), R(1, 2), UFloat(RI(2), RI(1)), UFloat(RI(-2), RI(1)),
      RI(0), Inf, NaN, UFloat(RI(0), RI(1)), UFloat(Inf, RI(1)),
      NotASpectrum>>

\* s * k, k * s (lines 578-591)
Mul ==
    /\ Running
    /\ budget > 0
    /\ \E slot \in Held, k \in DOMAIN Scalars :
          Returns("mul", slot, None, Scalars[k], None,
                  _mul_div(specs[slot], Scalars[k], FALSE))

\* s / k (lines 593-616)
Div ==
    /\ Running
    /\ budget > 0
    /\ \E slot \in Held, k \in DOMAIN Scalars :
          Returns("div", slot, None, Scalars[k], None,
                  _mul_div(specs[slot], Scalars[k], TRUE))

CombineFactors == {-1, 0, 1, 2, 3}

\* s.combine_bins(f)
CombineBins ==
    /\ Running
    /\ budget > 0
    /\ \E slot \in Held, f \in CombineFactors :
          Returns("combine_bins", slot, None, f, None,
                  combine_bins(specs[slot], f))

DownsampleFactors == {R(1, 2), RI(1), RI(2)}

LivetimeHandlings == <<None, Str("preserve"), Str("reduce"), Str("keep")>>

\* s.downsample(f, handle_livetime)
Downsample ==
    /\ Running
    /\ budget > 0
    /\ \E slot \in Held, f \in DownsampleFactors,
          i \in DOMAIN LivetimeHandlings :
          LET h == LivetimeHandlings[i]
          IN  IF DownsampleError(specs[slot], f, h) # ""
              THEN Returns("downsample", slot, None, f, h,
                           downsample(specs[slot], f, h, <<>>))
              ELSE \E new_counts \in
                         BinomialDraws(old_counts(specs[slot]), f) :
                      Returns("downsample", slot, None, f, h,
                              downsample(specs[slot], f, h, new_counts))

\* s.copy()
Copy ==
    /\ Running
    /\ budget > 0
    /\ \E slot \in Held :
          Returns("copy", slot, None, None, None, copy(specs[slot]))

\* s.counts
GetCounts ==
    /\ Running
    /\ budget > 0
    /\ \E slot \in Held :
          Returns("counts", slot, None, None, None,
                  Outcome(counts_read(specs[slot]), ""))

\* s.cps
GetCps ==
    /\ Running
    /\ budget > 0
    /\ \E slot \in Held :
          Returns("cps", slot, None, None, None,
                  Outcome(cps_read(specs[slot]), ""))

\* len(s)
GetLen ==
    /\ Running
    /\ budget > 0
    /\ \E slot \in Held :
          Returns("len", slot, None, None, None,
                  Outcome(RI(SpecLen(specs[slot])), ""))

\* a call that changes self in place and returns None, or raises
Mutates(op, slot, other, arg, after, id) ==
    /\ specs' = IF IsErr(after) THEN specs
                ELSE [specs EXCEPT ![slot] = after]
    /\ last' = Call(op, slot, specs[slot], other, arg, None,
                    IF IsErr(after) THEN after ELSE None, "")
    /\ edges_id' = [edges_id EXCEPT
                       ![slot] = IF IsErr(after) THEN @ ELSE id,
                       ![0] = 0]
    /\ budget' = budget - 1
    /\ UNCHANGED rebinVars

\* energy calibrations a caller may apply
Cals == {[offset |-> 0, half_gain |-> 1], [offset |-> 10, half_gain |-> 2]}

\* s.apply_calibration(cal)
ApplyCalibration ==
    /\ Running
    /\ budget > 0
    /\ \E slot \in Held, cal \in Cals :
          Mutates("apply_calibration", slot, None, cal,
                  apply_calibration(specs[slot], cal), FreshId)

\* s.calibrate_like(other)
CalibrateLike ==
    /\ Running
    /\ budget > 0
    /\ \E slot \in Held, o \in Held :
          Mutates("calibrate_like", slot, specs[o], None,
                  calibrate_like(specs[slot], specs[o]),
                  edges_copy(edges_id[o], FreshId))

\* s.rm_calibration()
RmCalibration ==
    /\ Running
    /\ budget > 0
    /\ \E slot \in Held :
          Mutates("rm_calibration", slot, None, None,
                  rm_calibration(specs[slot]), 0)

\* the calls that return a new Spectrum
Returning ==
    {"add", "sub", "mul", "div", "combine_bins", "downsample", "copy"}

\* x = <the Spectrum just returned>
Bind ==
    /\ Running
    /\ budget > 0
    /\ last.op \in Returning
    /\ IsSpectrum(last.res)
    /\ \E slot \in Slots :
          /\ specs' = [specs EXCEPT ![slot] = last.res]
          /\ last' = Call("bind", slot, None, None, None, None, None, "")
          /\ edges_id' = [edges_id EXCEPT ![slot] = edges_id[0], ![0] = 0]
    /\ UNCHANGED <<budget, rebinVars>>

----------------------------------------------------------------------------
(* Inputs of the constructor and the three explorations of the class.      *)

\* counts, cps and uncs arguments
Data(c, r, u) == [counts |-> c, cps |-> r, uncs |-> u]

\* a parsed file, as the parsers of the package hand it over
FileObject ==
    [filename |-> "spec.spe", livetime |-> RI(8), realtime |-> RI(9),
     collection_start |-> RI(100), collection_stop |-> RI(109)]

\* an array of whole numbers, as floats
Floats(seq) == Array([i \in DOMAIN seq |-> RI(seq[i])])

\* the keyword arguments of a call, data being counts, cps and uncs
WithData(data, edges, fileobj, livetime, realtime, start, stop) ==
    Kwargs(data.counts, data.cps, data.uncs, edges, fileobj, livetime,
           realtime, start, stop)

\* every kind of constructor call, timing arguments included
ConstructData ==
    {Data(Floats(<<3>>), None, None),
     Data(None, Array(<<R(1, 2)>>), None),
     Data(Floats(<<3>>), Array(<<R(1, 2)>>), None),
     Data(None, None, None),
     Data(Array(<<>>), None, None),
     Data(Floats(<<-1>>), None, None),
     Data(Floats(<<-1>>), None, Floats(<<1>>)),
     Data(Array(<<UFloat(RI(3), RI(4))>>), None, Floats(<<1>>))}

ConstructKwargs ==
    {WithData(data, edges, fileobj, livetime, realtime, start, stop) :
        data \in ConstructData,
        edges \in {None, Array(<<0, 1>>), Array(<<0, 1, 2>>),
                   Array(<<1, 1>>)},
        fileobj \in {None, FileObject},
        livetime \in {None, RI(5), RI(20)},
        realtime \in {None, RI(10), RI(-5)},
        start \in {None, RI(100)},
        stop \in {None, RI(110), RI(90)}}

\* operands of the operators: counts and rates of one and two channels,
\* with and without livetime, calibration and given uncertainties
OperandData ==
    {Data(Floats(<<1, 2>>), None, None),
     Data(Floats(<<-1, 1>>), None, Floats(<<1, 1>>)),
     Data(Floats(<<4>>), None, None),
     Data(None, Array(<<R(1, 2), RI(3)>>), Floats(<<1, 2>>))}

\* the operands are the spectra that can be constructed
OperandKwargs ==
    {kw \in {WithData(data, edges, None, livetime, None, None, None) :
                data \in OperandData,
                edges \in {None, Array(<<0, 1>>), Array(<<0, 1, 2>>),
                           Array(<<0, 2, 4>>)},
                livetime \in {None, RI(0), RI(5)}} :
        ~IsErr(Spectrum(kw))}

\* the constructor calls of a sequence of calls, good and bad
SequenceKwargs ==
    {Kwargs(Floats(<<1, 2>>), None, None, Array(<<0, 1, 2>>), None, RI(5),
            None, None, None),
     Kwargs(Floats(<<4>>), None, None, Array(<<0, 2>>), None, None, None,
            None, None),
     Kwargs(Floats(<<2, 0>>), None, None, None, None, None, None, None,
            None),
     Kwargs(None, Array(<<R(1, 2), RI(3)>>), None, None, None, RI(5), None,
            None, None),
     Kwargs(Floats(<<1>>), Floats(<<1>>), None, None, None, None, None,
            None, None),
     Kwargs(None, None, None, None, None, None, None, None, None),
     Kwargs(Floats(<<1, 2>>), None, None, Array(<<0, 1>>), None, None, None,
            None, None),
     Kwargs(Floats(<<1, 2>>), None, None, Array(<<0, 2, 2>>), None, None,
            None, None, None)}

\* one constructor call
ConstructInit ==
    /\ RebinIdle
    /\ specs = NoSpecs
    /\ last = NoCall
    /\ edges_id = NoArrays
    /\ budget = 0

ConstructNext == Construct(ConstructKwargs, {1})

SpecConstruct == ConstructInit /\ [][ConstructNext]_vars

\* two operands and one call on them
SpectrumInit ==
    /\ RebinIdle
    /\ specs = NoSpecs
    /\ last = NoCall
    /\ edges_id = NoArrays
    /\ budget = 1

SpectrumNext ==
    \/ Construct(OperandKwargs, Slots)
    \/ Add
    \/ Sub
    \/ Mul
    \/ Div
    \/ CombineBins
    \/ Downsample
    \/ Copy
    \/ ApplyCalibration
    \/ CalibrateLike
    \/ RmCalibration
    \/ GetCounts
    \/ GetCps
    \/ GetLen

SpecSpectrum == SpectrumInit /\ [][SpectrumNext]_vars

\* sequences of up to MaxOps calls, results bound to the caller's variables
SequenceInit ==
    /\ RebinIdle
    /\ specs = NoSpecs
    /\ last = NoCall
    /\ edges_id = NoArrays
    /\ budget = MaxOps

SequenceNext ==
    \/ Construct(SequenceKwargs, Slots)
    \/ Add
    \/ Sub
    \/ Mul
    \/ Div
    \/ CombineBins
    \/ Downsample
    \/ Copy
    \/ ApplyCalibration
    \/ CalibrateLike
    \/ RmCalibration
    \/ Bind

SpecSequence == SequenceInit /\ [][SequenceNext]_vars

----------------------------------------------------------------------------
(* core/rebin.py                                                           *)

\* np.all(np.diff(arr) > 0)
_check_strictly_increasing(arr) ==
    \A i \in 1..(Len(arr) - 1) : arr[i + 1] - arr[i] > 0

\* _linear_offset without the division by the bin width
_linear_offset_NoWidth(slope, cts, low, high) ==
    IF Abs(slope) < FlatThreshold
    THEN Num(2 * cts * Den, 0)
    ELSE Num(2 * cts * Den, -(slope * (high * high - low * low) * Den))

\* offset of the linear density of a bin [low, high] holding cts counts
_linear_offset(slope, cts, low, high) ==
    IF Abs(slope) < FlatThreshold
    THEN Num(2 * cts * (Den \div (high - low)), 0)
    ELSE Num(2 * cts * (Den \div (high - low)),
             -(slope * (high * high - low * low) * (Den \div (high - low))))

\* m * x**2 / 2 + b * x
_slope_integral(x, m, b) == Num(b.c * x, m * x * x * Den + b.s * x)

_counts(slope, offset, cts, low, high) ==
    NumSub(_slope_integral(high, slope, offset),
           _slope_integral(low, slope, offset))

\* 0-based array read, as in the code: arr[i]
At(arr, i) == arr[i + 1]

\* whether arr[i] reads inside the array
InBounds(arr, i) == i >= 0 /\ i < Len(arr)

\* arr[-1]
Last(arr) == arr[Len(arr)]

\* line 64: the output bin starts above the input edge range
SkipOutBin(oi) == At(out_edges, oi) > Last(in_edges)

\* line 70: the input edge at the cursor is below the output bin's left edge
SearchOn(ii, oi) == At(in_edges, ii) < At(out_edges, oi)

\* the cursor left where the edge search stopped
StepBack_NoStep(ii) == ii

\* two steps back, not before the first input bin
StepBack_TwoSteps(ii) == Max(ii - 2, 0)

\* line 72: step back onto the input bin that straddles the left edge
StepBack(ii) == ii - 1

\* lines 74-75: the input bin at the cursor overlaps the output bin
ScanOn(ii, oi) ==
    /\ ii < Len(in_spectrum)
    /\ At(in_edges, ii) < At(out_edges, oi + 1)

\* line 83
HighEdge(ii, oi) == Min(At(in_edges, ii + 1), At(out_edges, oi + 1))

\* the low edge taken from the output bin alone
LowEdge_NoClip(ii, oi) == At(out_edges, oi)

\* line 85
LowEdge(ii, oi) == Max(At(in_edges, ii), At(out_edges, oi))

\* lines 77-87: what input bin ii adds to output bin oi
Contribution(ii, oi) ==
    LET cts == At(in_spectrum, ii)
        slope == At(slopes, ii)
        offset == _linear_offset(slope, cts, At(in_edges, ii),
                                 At(in_edges, ii + 1))
    IN  _counts(slope, offset, cts, LowEdge(ii, oi), HighEdge(ii, oi))

\* rebin's assertions (lines 117-130); the arrays of the model are 1-D and
\* of float type by construction
RebinInputsValid ==
    /\ _check_strictly_increasing(in_edges)
    /\ _check_strictly_increasing(out_edges)
    /\ Len(slopes) = Len(in_spectrum)
    /\ Len(in_spectrum) = Len(in_edges) - 1

\* rebin (lines 95-131) and the head of _rebin (lines 58-60)
rebin ==
    /\ pc = "rebin"
    /\ IF RebinInputsValid
       THEN /\ out_spectrum' = [j \in 1..(Len(out_edges) - 1) |-> Zero]
            /\ in_idx' = 1
            /\ out_idx' = 0
            /\ pc' = "for"
       ELSE /\ pc' = "AssertionError"
            /\ UNCHANGED <<out_spectrum, in_idx, out_idx>>
    /\ UNCHANGED <<in_spectrum, in_edges, out_edges, slopes, beyond, scans,
                   spectrumVars>>

\* lines 62-65: the for loop's head and the skip of an output bin
ForOutBin ==
    /\ pc = "for"
    /\ IF out_idx >= Len(out_spectrum)
       THEN pc' = "done" /\ UNCHANGED out_idx
       ELSE IF SkipOutBin(out_idx)
            THEN pc' = "for" /\ out_idx' = out_idx + 1
            ELSE pc' = "search" /\ UNCHANGED out_idx
    /\ UNCHANGED <<in_spectrum, in_edges, out_edges, slopes, out_spectrum,
                   in_idx, beyond, scans, spectrumVars>>

\* the values a float64 found after in_edges can have, as far as the
\* comparisons with the output edges tell them apart (-1: below every
\* edge; MaxEdge: below none, as is NaN)
Garbage == -1..MaxEdge

\* in_edges[ii] for ii past the end of the array
BeyondAt(ii) == beyond[ii - Len(in_edges) + 1]

\* line 70 for ii past the end of in_edges; the search is followed for
\* MaxOverrun elements past the end
BeyondBelow(ii, oi) ==
    IF ii < Len(in_edges) + MaxOverrun
    THEN BeyondAt(ii) < At(out_edges, oi)
    ELSE FALSE

\* line 71
SearchNext ==
    /\ in_idx' = in_idx + 1
    /\ pc' = "search"
    /\ UNCHANGED scans

\* line 72, where the scan of output bin out_idx starts
SearchEnd ==
    /\ in_idx' = StepBack(in_idx)
    /\ pc' = "scan"
    /\ scans' = Append(scans, [out |-> out_idx, start |-> StepBack(in_idx),
                               bins |-> <<>>])

\* lines 70-72: one test of the edge-search loop.  The kernel is compiled
\* in nopython mode, which does not check array bounds: a read of in_edges
\* past its end yields whatever the memory there holds, or the process
\* dies.  Nothing writes to that memory while no input bin is visited, so
\* the same address reads the same value throughout the search.
Search ==
    /\ pc = "search"
    /\ IF InBounds(in_edges, in_idx)
       THEN IF SearchOn(in_idx, out_idx)
            THEN SearchNext
            ELSE SearchEnd
       ELSE \/ IF BeyondBelow(in_idx, out_idx) THEN SearchNext
                                                ELSE SearchEnd
            \/ pc' = "crash" /\ UNCHANGED <<in_idx, scans>>
    /\ UNCHANGED <<in_spectrum, in_edges, out_edges, slopes, out_spectrum,
                   out_idx, beyond, spectrumVars>>

\* lines 74-91: one test of the accumulation loop, and the end of the
\* for loop's body
Scan ==
    /\ pc = "scan"
    /\ IF ScanOn(in_idx, out_idx)
       THEN /\ out_spectrum' =
                  [out_spectrum EXCEPT ![out_idx + 1] =
                      NumAdd(@, Contribution(in_idx, out_idx))]
            /\ in_idx' = in_idx + 1
            /\ pc' = "scan"
            /\ scans' = [scans EXCEPT ![Len(scans)].bins = Append(@, in_idx)]
            /\ UNCHANGED out_idx
       ELSE /\ in_idx' = (IF in_idx = 0 THEN 1 ELSE in_idx)
            /\ out_idx' = out_idx + 1
            /\ pc' = "for"
            /\ UNCHANGED <<out_spectrum, scans>>
    /\ UNCHANGED <<in_spectrum, in_edges, out_edges, slopes, beyond,
                   spectrumVars>>

----------------------------------------------------------------------------
(* Inputs of rebin.                                                        *)

\* strictly increasing sequences over 0..MaxEdge with 1..n elements
IncreasingSeqs(n) ==
    UNION { { s \in [1..k -> 0..MaxEdge] : _check_strictly_increasing(s) }
            : k \in 1..n }

\* edge arrays that are not strictly increasing
BadEdges == { <<1, 1>>, <<2, 1>> }

RebinInit ==
    /\ in_edges \in IncreasingSeqs(MaxIn + 1) \cup BadEdges
    /\ out_edges \in IncreasingSeqs(MaxOut + 1) \cup BadEdges
    /\ \E n \in 0..MaxIn :
          /\ n = Len(in_edges) - 1 \/ (n = 1 /\ Len(in_edges) = 1)
          /\ in_spectrum \in [1..n -> Counts]
          /\ slopes \in [1..n -> Slopes]
    /\ out_spectrum = <<>>
    /\ in_idx = 0
    /\ out_idx = 0
    /\ pc = "rebin"
    /\ beyond \in IF Len(in_edges) = 1 THEN [1..MaxOverrun -> Garbage]
                  ELSE {[k \in 1..MaxOverrun |-> MaxEdge]}
    /\ scans = <<>>
    /\ specs = NoSpecs
    /\ last = NoCall
    /\ edges_id = NoArrays
    /\ budget = 0

RebinNext == rebin \/ ForOutBin \/ Search \/ Scan

SpecRebin == RebinInit /\ [][RebinNext]_vars

----------------------------------------------------------------------------
(* Properties of Spectrum.                                                 *)

\* the Spectrum holds counts, not rates
CountsBased(spec) == spec._counts # None

\* the last call was op on two counts-based spectra that pass
\* _add_sub_error_checking
CountsPair(op) ==
    /\ last.op = op
    /\ IsSpectrum(last.other)
    /\ CountsBased(last.self)
    /\ CountsBased(last.other)
    /\ _add_sub_error_checking(last.self, last.other) = ""

\* C1: a - b of two counts-based spectra that pass the validation of the
\* operands returns a Spectrum that stores cps, not counts, and has no
\* livetime, whatever the livetimes of a and b are.
C1_SubtractionIsRateBased ==
    CountsPair("sub") =>
        /\ IsSpectrum(last.res)
        /\ last.res._cps # None
        /\ last.res._counts = None
        /\ last.res.livetime = None

\* bin_edges_kev is None, or one longer than the data and strictly
\* increasing
EdgesValid(spec) ==
    \/ spec.bin_edges_kev = None
    \/ /\ Len(spec.bin_edges_kev.array) = SpecLen(spec) + 1
       /\ ~AnyNotIncreasing(spec.bin_edges_kev)

\* every Spectrum there is: those the caller holds and the one just
\* returned
Alive(P(_)) ==
    /\ \A slot \in Held : P(specs[slot])
    /\ IsSpectrum(last.res) => P(last.res)

\* C2: after any sequence of construction, apply_calibration,
\* calibrate_like, rm_calibration, add, subtract, scale and combine_bins,
\* the bin_edges_kev of every Spectrum is None or has one element more than
\* there are channels and is strictly increasing.
C2_EdgesInvariant == Alive(EdgesValid)

\* livetime and realtime are both known
BothTimes(spec) == spec.livetime # None /\ spec.realtime # None

\* C3: every Spectrum the constructor returns that has a livetime and a
\* realtime has livetime <= realtime, wherever the realtime came from: the
\* argument, start_time and stop_time, or the file object.
C3_LivetimeWithinRealtime ==
    (last.op = "construct" /\ IsSpectrum(last.res) /\ BothTimes(last.res))
        => RLe(last.res.livetime, last.res.realtime)

\* exactly one of the stored series is there
OneSeries(spec) == (spec._counts = None) # (spec._cps = None)

\* C4: every Spectrum, returned by the constructor or by add, subtract,
\* multiply, divide, combine_bins, downsample or copy after any sequence of
\* these, stores exactly one of counts and cps; and the constructor raises
\* when it is given both counts and cps, or neither.
C4_ExactlyOneSeries ==
    /\ Alive(OneSeries)
    /\ (last.op = "construct"
          /\ (last.arg.counts = None) = (last.arg.cps = None))
         => IsErr(last.res)

\* a sequence of two calls has ended with a Spectrum made from a result of
\* the first
C4_Witness ==
    /\ budget = 0
    /\ last.op \in {"add", "sub", "mul", "div", "combine_bins"}
    /\ IsSpectrum(last.res)
    /\ last.self._cps # None
    /\ last.self.livetime = None
    /\ last.res._counts = None

\* the last call was s * k or s / k with a plain, finite, nonzero k
PlainScaling ==
    /\ last.op \in {"mul", "div"}
    /\ IsNum(last.arg)
    /\ last.arg # RI(0)

\* the stored series of a Spectrum
Series(spec) == IF CountsBased(spec) THEN spec._counts ELSE spec._cps

\* x scaled by the exact factor k: the value k * v, the uncertainty |k| * s
Scaled(x, k) == UFloat(RMul(x.v, k), VarMul(x.var, RMul(k, k)))

\* C5: s * k and s / k, for every Spectrum s and every finite nonzero k,
\* positive or negative, return a Spectrum of the kind of s with the
\* bin_edges_kev of s, no livetime, the values k * v[i] (v[i] / k) and the
\* uncertainties |k| * sigma[i] (sigma[i] / |k|).
C5_ScalingSucceeds ==
    PlainScaling =>
        LET k == IF last.op = "mul" THEN last.arg
                 ELSE RDiv(RI(1), last.arg)
            before == Series(last.self).array
        IN  /\ IsSpectrum(last.res)
            /\ CountsBased(last.res) = CountsBased(last.self)
            /\ last.res.bin_edges_kev = last.self.bin_edges_kev
            /\ last.res.livetime = None
            /\ Series(last.res).array =
                 [i \in 1..Len(before) |-> Scaled(before[i], k)]

----------------------------------------------------------------------------
(* Properties of rebin.                                                    *)

NIn == Len(in_spectrum)

NOut == Len(out_edges) - 1

ZeroSlopes == \A i \in 1..Len(slopes) : slopes[i] = 0

\* length of the part of input bin i (1-based) inside [lo, hi]
Overlap(i, lo, hi) ==
    Max(0, Min(in_edges[i + 1], hi) - Max(in_edges[i], lo))

\* cts_i * overlap / width of input bin i
FlatShare(i, lo, hi) ==
    Num(2 * in_spectrum[i] * Overlap(i, lo, hi)
          * (Den \div (in_edges[i + 1] - in_edges[i])), 0)

\* The integral over the part of input bin i inside [lo, hi] of the linear
\* density of slope slopes[i] that integrates to cts_i over the whole bin
\* (flat below the threshold).
NormalisedShare(i, lo, hi) ==
    IF Abs(slopes[i]) < FlatThreshold \/ Overlap(i, lo, hi) = 0
    THEN FlatShare(i, lo, hi)
    ELSE LET l == Max(in_edges[i], lo)
             h == Min(in_edges[i + 1], hi)
             w == in_edges[i + 1] - in_edges[i]
             sq == in_edges[i + 1] * in_edges[i + 1] - in_edges[i] * in_edges[i]
         IN  Num(2 * in_spectrum[i] * (h - l) * (Den \div w),
                 slopes[i] * ((h * h - l * l) * Den - sq * (h - l) * (Den \div w)))

RECURSIVE SumOver(_, _, _, _)
\* the sum of Share(i, lo, hi) over the input bins 1..n
SumOver(Share(_, _, _), n, lo, hi) ==
    IF n = 0 THEN Zero
    ELSE NumAdd(SumOver(Share, n - 1, lo, hi), Share(n, lo, hi))

\* the counts of the input restricted to [lo, hi]: whole bins count in full
RestrictedShare(i, lo, hi) ==
    IF lo <= in_edges[i] /\ in_edges[i + 1] <= hi
    THEN FromCounts(in_spectrum[i])
    ELSE NormalisedShare(i, lo, hi)

OutRangeInside ==
    /\ NOut >= 1
    /\ NIn >= 1
    /\ in_edges[1] <= out_edges[1]
    /\ Last(out_edges) <= Last(in_edges)

\* C6: when rebin returns and the range of out_edges lies inside the range
\* of in_edges, the sum of the output bins equals the input counts restricted
\* to that range (covered bins in full, partly covered bins by the integral
\* of their density); with equal ranges the totals are equal.
C6_Conservation ==
    (pc = "done" /\ OutRangeInside) =>
        /\ NumSum(out_spectrum)
             = SumOver(RestrictedShare, NIn, out_edges[1], Last(out_edges))
        /\ (in_edges[1] = out_edges[1] /\ Last(in_edges) = Last(out_edges))
             => NumSum(out_spectrum)
                  = FromCounts(NumSum([i \in 1..NIn |->
                                          Num(in_spectrum[i], 0)]).c)

\* no slope lies strictly between 0 and the threshold in absolute value
NoSubThresholdSlope ==
    \A i \in 1..Len(slopes) : slopes[i] = 0 \/ Abs(slopes[i]) >= FlatThreshold

\* Conservation as in C6, for slopes that are zero or at least the threshold.
ConservationOffThreshold == NoSubThresholdSlope => C6_Conservation

IdentityCase == out_edges = in_edges /\ ZeroSlopes /\ RebinInputsValid

\* C7: rebin(counts, edges, edges, zeros) returns counts; while output bin
\* out_idx is scanned, the input bin the cursor stepped back onto (the one
\* before out_idx) has added nothing, and input bin out_idx adds its counts.
C7_Identity ==
    IdentityCase =>
        /\ pc = "done" =>
             out_spectrum = [j \in 1..NIn |-> FromCounts(in_spectrum[j])]
        /\ pc = "scan" =>
             /\ in_idx \in {out_idx - 1, out_idx, out_idx + 1}
             /\ in_idx >= 0
             /\ out_spectrum[out_idx + 1] =
                  IF in_idx <= out_idx THEN Zero
                  ELSE FromCounts(in_spectrum[out_idx + 1])

C7_Witness ==
    /\ pc = "done"
    /\ IdentityCase
    /\ in_spectrum = <<1, 10>>
    /\ out_spectrum = <<FromCounts(1), FromCounts(10)>>

\* C8: with zero slopes every output bin inside the input edge range is the
\* sum over the input bins of cts_i * overlap / width_i; merging [10,10] on
\* [0,1,2] onto [0,2] gives [20], splitting [10] on [0,2] onto [0,1,2]
\* gives [5,5].
C8_FlatOverlap ==
    (pc = "done" /\ ZeroSlopes) =>
        /\ \A j \in 1..NOut :
              (NIn >= 1 /\ in_edges[1] <= out_edges[j]
                 /\ out_edges[j + 1] <= Last(in_edges))
              => out_spectrum[j]
                   = SumOver(FlatShare, NIn, out_edges[j], out_edges[j + 1])
        /\ (in_spectrum = <<10, 10>> /\ in_edges = <<0, 1, 2>>
              /\ out_edges = <<0, 2>>)
             => out_spectrum = <<FromCounts(20)>>
        /\ (in_spectrum = <<10>> /\ in_edges = <<0, 2>>
              /\ out_edges = <<0, 1, 2>>)
             => out_spectrum = <<FromCounts(5), FromCounts(5)>>

C8_Witness ==
    /\ pc = "done"
    /\ ZeroSlopes
    /\ in_spectrum = <<10, 10>>
    /\ in_edges = <<0, 1, 2>>
    /\ out_edges = <<0, 2>>
    /\ out_spectrum = <<FromCounts(20)>>

\* what the density of input bin i, as the kernel computes it, integrates
\* to over the part of the bin inside [lo, hi]
KernelShare(i, lo, hi) ==
    IF Overlap(i, lo, hi) = 0 THEN Zero
    ELSE _counts(slopes[i],
                 _linear_offset(slopes[i], in_spectrum[i], in_edges[i],
                                in_edges[i + 1]),
                 in_spectrum[i],
                 Max(in_edges[i], lo), Min(in_edges[i + 1], hi))

\* C9: rebin does not extrapolate: an output bin that starts above the last
\* input edge or ends at or below the first one is 0, and every output bin
\* holds only what the input bins contribute on their overlap with it, which
\* lies inside the input range.
C9_NoExtrapolation ==
    pc = "done" =>
        \A j \in 1..NOut :
            /\ out_edges[j] > Last(in_edges) => out_spectrum[j] = Zero
            /\ out_edges[j + 1] <= in_edges[1] => out_spectrum[j] = Zero
            /\ out_spectrum[j]
                 = SumOver(KernelShare, NIn, out_edges[j], out_edges[j + 1])

C9_Witness ==
    /\ pc = "done"
    /\ NIn >= 1
    /\ \E j \in 1..NOut : out_edges[j] > Last(in_edges)
    /\ \E j \in 1..NOut :
          /\ out_edges[j] < Last(in_edges)
          /\ out_edges[j + 1] > Last(in_edges)
          /\ out_spectrum[j] # Zero

\* how many of start_time, stop_time and realtime a call supplies
TimesGiven(kw) ==
    Cardinality({name \in {"start_time", "stop_time", "realtime"} :
                    kw[name] # None})

\* the field of the new Spectrum is the argument or, where that is None,
\* what the file object has, if there is one
AsSupplied(spec, kw, name, filefield) ==
    spec[name] = IF kw[name] # None THEN kw[name]
                 ELSE IF kw.input_file_object # None
                      THEN kw.input_file_object[filefield]
                      ELSE None

\* C11: the constructor raises when start_time, stop_time and realtime are
\* all supplied; when exactly two are supplied the new Spectrum has all
\* three, the two supplied unchanged, with realtime = stop_time - start_time
\* in seconds; when fewer than two are supplied none is derived: each is
\* as supplied, or as the file object has it.
C11_TimeDerivation ==
    last.op = "construct" =>
        /\ TimesGiven(last.arg) = 3 => IsErr(last.res)
        /\ (TimesGiven(last.arg) = 2 /\ IsSpectrum(last.res)) =>
              /\ last.res.start_time # None
              /\ last.res.stop_time # None
              /\ last.res.realtime # None
              /\ last.res.realtime =
                    RSub(last.res.stop_time, last.res.start_time)
              /\ \A name \in {"start_time", "stop_time", "realtime"} :
                    last.arg[name] # None => last.res[name] = last.arg[name]
        /\ (TimesGiven(last.arg) < 2 /\ IsSpectrum(last.res)) =>
              /\ AsSupplied(last.res, last.arg, "start_time",
                            "collection_start")
              /\ AsSupplied(last.res, last.arg, "stop_time",
                            "collection_stop")
              /\ AsSupplied(last.res, last.arg, "realtime", "realtime")

\* a Spectrum constructed from a stop_time and a realtime, with a file
\* object at hand whose collection_start is not the one derived
C11_Witness ==
    /\ last.op = "construct"
    /\ IsSpectrum(last.res)
    /\ last.arg.start_time = None
    /\ last.arg.stop_time = RI(110)
    /\ last.arg.realtime = RI(10)
    /\ last.arg.input_file_object # None
    /\ last.res.start_time = RI(100)

\* C12: every Spectrum the constructor returns that has a start_time and a
\* stop_time has start_time <= stop_time, also when one of them was derived
\* from the other and realtime or taken from the file object.
C12_StartBeforeStop ==
    (last.op = "construct" /\ IsSpectrum(last.res)
        /\ last.res.start_time # None /\ last.res.stop_time # None)
      => RLe(last.res.start_time, last.res.stop_time)

\* the last call was a + b or a - b
AddOrSub == last.op \in {"add", "sub"}

\* C13: a + b and a - b raise, and return no Spectrum, when b is not a
\* Spectrum, when the numbers of channels differ, when exactly one operand
\* is calibrated, and (with NotImplementedError) when both are calibrated
\* with different bin edges; a + b raises as well when one operand is
\* counts-based and the other rate-based, livetimes or not.
C13_OperandsRejected ==
    AddOrSub =>
        /\ ~IsSpectrum(last.other) => IsErr(last.res)
        /\ IsSpectrum(last.other) =>
              /\ SpecLen(last.self) # SpecLen(last.other) => IsErr(last.res)
              /\ is_calibrated(last.self) # is_calibrated(last.other)
                    => IsErr(last.res)
              /\ (/\ SpecLen(last.self) = SpecLen(last.other)
                  /\ is_calibrated(last.self)
                  /\ is_calibrated(last.other)
                  /\ last.self.bin_edges_kev # last.other.bin_edges_kev)
                    => last.res = Raise("NotImplementedError")
              /\ (/\ last.op = "add"
                  /\ CountsBased(last.self) # CountsBased(last.other))
                    => IsErr(last.res)

\* counts plus rates were refused, both with a livetime and otherwise
\* compatible
C13_Witness ==
    /\ last.op = "add"
    /\ IsSpectrum(last.other)
    /\ CountsBased(last.self)
    /\ ~CountsBased(last.other)
    /\ last.self.livetime = RI(5)
    /\ last.other.livetime = RI(5)
    /\ _add_sub_error_checking(last.self, last.other) = ""
    /\ last.res = Raise("SpectrumError")

\* the sum of the nominal values of channels lo..hi (counted from 1)
RECURSIVE ValueSum(_, _, _)
ValueSum(series, lo, hi) ==
    IF lo > hi THEN RI(0)
    ELSE RAdd(series[lo].v, ValueSum(series, lo + 1, hi))

\* ceil(n / f)
CeilDiv(n, f) == (n + f - 1) \div f

\* the last call was s.combine_bins(f) with an int f >= 1
Combining == last.op = "combine_bins" /\ last.arg >= 1

\* what combine_bins(f) is to return for a Spectrum of n channels
CombinedAsClaimed ==
    LET f == last.arg
        n == SpecLen(last.self)
        rows == CeilDiv(n, f)
        before == Series(last.self).array
    IN  /\ IsSpectrum(last.res)
        /\ SpecLen(last.res) = rows
        /\ \A k \in 1..rows :
              Series(last.res).array[k].v =
                  ValueSum(before, (k - 1) * f + 1, Min(k * f, n))
        /\ is_calibrated(last.self) =>
              /\ is_calibrated(last.res)
              /\ last.res.bin_edges_kev.array =
                    [j \in 1..(rows + 1) |->
                        last.self.bin_edges_kev.array[
                            Min((j - 1) * f, n) + 1]]

\* C14: for every Spectrum of N channels and every int f >= 1, f > N
\* included, combine_bins(f) returns a Spectrum of ceil(N / f) channels,
\* the k-th the sum of channels k*f .. min((k+1)*f, N) - 1; the edges of a
\* calibrated one are every f-th edge and the last edge, ceil(N / f) + 1 of
\* them, from the same first to the same last edge.
C14_CombineBins == Combining => CombinedAsClaimed

\* handle_livetime is one of the three values downsample knows
KnownHandling(h) == h = None \/ h = Str("preserve") \/ h = Str("reduce")

\* the livetime downsample(f, h) is to give a Spectrum of livetime t
HandledLivetime(t, f, h) ==
    IF h = None THEN None
    ELSE IF h = Str("preserve") \/ t = None THEN t
         ELSE RDiv(t, f)

\* C15: downsample(f, handle_livetime) raises on a rate-based Spectrum,
\* raises for f < 1, and raises ValueError for a handle_livetime other than
\* None, 'preserve' and 'reduce'; otherwise, for every counts-based
\* Spectrum, with a livetime or without, it returns a counts-based Spectrum
\* with the same bin_edges_kev, every count a whole number from 0 to the
\* original count, and the livetime None, the original one, or the original
\* one divided by f.
C15_Downsample ==
    last.op = "downsample" =>
        LET f == last.arg
            h == last.arg2
        IN  /\ ~CountsBased(last.self) => IsErr(last.res)
            /\ RLt(f, RI(1)) => IsErr(last.res)
            /\ (CountsBased(last.self) /\ ~RLt(f, RI(1)) /\ ~KnownHandling(h))
                  => last.res = Raise("ValueError")
            /\ (CountsBased(last.self) /\ ~RLt(f, RI(1)) /\ KnownHandling(h))
                  => /\ IsSpectrum(last.res)
                     /\ CountsBased(last.res)
                     /\ last.res.bin_edges_kev = last.self.bin_edges_kev
                     /\ SpecLen(last.res) = SpecLen(last.self)
                     /\ \A i \in 1..SpecLen(last.self) :
                           /\ last.res._counts.array[i].v.d = 1
                           /\ RLe(RI(0), last.res._counts.array[i].v)
                           /\ RLe(last.res._counts.array[i].v,
                                  last.self._counts.array[i].v)
                     /\ last.res.livetime =
                           HandledLivetime(last.self.livetime, f, h)

\* a scalar that is zero, infinite or NaN, plain or as a nominal value
Degenerate(k) ==
    \/ k = RI(0) \/ k = Inf \/ k = NaN
    \/ /\ IsUFloat(k)
       /\ (k.v = RI(0) \/ k.v = Inf \/ k.v = NaN)

Scaling == last.op \in {"mul", "div"}

\* C16: s * k and s / k with k zero, infinite or NaN, as a plain number or
\* as the nominal value of an uncertain number, raise and return no
\* Spectrum, and s is afterwards what it was before.
C16_DegenerateScaling ==
    (Scaling /\ Degenerate(last.arg)) =>
        /\ IsErr(last.res)
        /\ specs[last.slot] = last.self

\* a Spectrum has been multiplied by 0 and, in another run, divided by 0 +/- 1
C16_Witness ==
    /\ Scaling
    /\ Degenerate(last.arg)
    /\ last.res = Raise("ValueError")
    /\ \/ last.op = "mul" /\ last.arg = RI(0)
       \/ last.op = "div" /\ IsUFloat(last.arg)

\* the last call read the view the Spectrum does not store
NonNativeRead ==
    \/ last.op = "cps" /\ CountsBased(last.self)
    \/ last.op = "counts" /\ ~CountsBased(last.self)

NativeRead ==
    \/ last.op = "counts" /\ CountsBased(last.self)
    \/ last.op = "cps" /\ ~CountsBased(last.self)

\* C17: with a livetime, the cps of a counts-based Spectrum are its counts
\* divided by the livetime and the counts of a rate-based Spectrum are its
\* cps times the livetime; without a livetime, reading the view that is not
\* stored raises SpectrumError, while the stored view and len() succeed.
C17_DualViews ==
    /\ (NonNativeRead /\ last.self.livetime # None) =>
          /\ ~IsErr(last.res)
          /\ Len(last.res.array) = Len(Series(last.self).array)
          /\ \A i \in 1..Len(Series(last.self).array) :
                last.res.array[i].v =
                    IF CountsBased(last.self)
                    THEN RDiv(last.self._counts.array[i].v, last.self.livetime)
                    ELSE RMul(last.self._cps.array[i].v, last.self.livetime)
    /\ (NonNativeRead /\ last.self.livetime = None) =>
          last.res = Raise("SpectrumError")
    /\ ((NativeRead \/ last.op = "len") /\ last.self.livetime = None) =>
          ~IsErr(last.res)

\* the calls that change the calibration of self
Calibrating == {"apply_calibration", "calibrate_like", "rm_calibration"}

\* no array of bin edges belongs to two Spectrum objects
NoSharedEdges ==
    \A a, b \in Slots \cup {0} :
        (a # b /\ edges_id[a] # 0) => edges_id[a] # edges_id[b]

\* spectra a and b differ in nothing but, possibly, bin_edges_kev
SameButEdges(a, b) ==
    [a EXCEPT !.bin_edges_kev = None] = [b EXCEPT !.bin_edges_kev = None]

\* a step that is a call of one of the methods, and what it may change
CallKeepsOperands ==
    /\ (budget' < budget /\ last'.op \in Returning) => specs' = specs
    /\ (budget' < budget /\ last'.op \in Calibrating) =>
          /\ \A s \in Slots : s # last'.slot => specs'[s] = specs[s]
          /\ SameButEdges(specs'[last'.slot], specs[last'.slot])
    /\ NoSharedEdges'

\* C18: add, subtract, multiply, divide, combine_bins, downsample and copy
\* leave every field of every held Spectrum as it was; apply_calibration,
\* calibrate_like and rm_calibration change nothing but the bin_edges_kev
\* of the Spectrum they are called on; and after every call no two Spectrum
\* objects have the same array of bin edges, so that a calibration set on
\* one is never seen through another.
C18_OperandsUnchanged == [][CallKeepsOperands]_vars

\* y.calibrate_like(x) has given x and y equal bin edges in two arrays
C18_Witness ==
    /\ last.op = "calibrate_like"
    /\ last.res = None
    /\ \E a, b \in Held :
          /\ a # b
          /\ specs[a].bin_edges_kev = specs[b].bin_edges_kev
          /\ specs[a].bin_edges_kev # None
          /\ edges_id[a] # edges_id[b]

\* output bin j (1-based) is input bin i
Coincide(i, j) ==
    /\ out_edges[j] = in_edges[i]
    /\ out_edges[j + 1] = in_edges[i + 1]

\* C19: for every slope, slopes below the threshold included, the density
\* of input bin i integrates to cts_i over the bin: an output bin that is
\* input bin i holds exactly cts_i when rebin returns, and below the
\* threshold the bin gives any output bin the flat share
\* cts_i * overlap / width_i.
C19_DensityIntegratesToCounts ==
    (pc = "done" /\ RebinInputsValid) =>
        \A i \in 1..NIn, j \in 1..NOut :
            /\ Coincide(i, j) => out_spectrum[j] = FromCounts(in_spectrum[i])
            /\ Abs(slopes[i]) < FlatThreshold =>
                  KernelShare(i, out_edges[j], out_edges[j + 1])
                     = FlatShare(i, out_edges[j], out_edges[j + 1])

\* the input bins visited in the k-th scan
Visited(k) == { scans[k].bins[n] : n \in DOMAIN scans[k].bins }

\* the input bins visited in the scans before the k-th
VisitedBefore(k) == UNION { Visited(m) : m \in 1..(k - 1) }

RECURSIVE Visits(_)
\* the number of visits in the first k scans
Visits(k) == IF k = 0 THEN 0 ELSE Visits(k - 1) + Len(scans[k].bins)

\* C20: within one rebin call the input bin at which the scan of an output
\* bin starts, after the step back, is never before the one at which the
\* scan of the output bin before it started; a scan visits at most one input
\* bin that an earlier scan has visited; and the visits number at most
\* n_in + n_out.
C20_ScanAdvances ==
    /\ \A k \in 2..Len(scans) : scans[k - 1].start <= scans[k].start
    /\ \A k \in 1..Len(scans) :
          Cardinality(Visited(k) \cap VisitedBefore(k)) <= 1
    /\ Visits(Len(scans)) <= NIn + NOut

\* two output bins have been scanned, the second from the input bin the
\* first one ended in, and every input bin has been visited
C20_Witness ==
    /\ pc = "done"
    /\ Len(scans) = 2
    /\ Visited(2) \cap Visited(1) # {}
    /\ Visits(2) = NIn + 1
    /\ NIn = 2

\* the reads of the test of the search loop (line 70) are inside the arrays,
\* and the step back that ends the loop (line 72) leaves the cursor at 0 or
\* above
SearchReadsInBounds ==
    /\ InBounds(in_edges, in_idx)
    /\ InBounds(out_edges, out_idx)
    /\ in_idx >= 1

\* the reads of the scan loop (lines 74-85) are inside the arrays
ScanReadsInBounds ==
    /\ in_idx >= 0
    /\ InBounds(out_edges, out_idx + 1)
    /\ in_idx < Len(in_spectrum) => InBounds(in_edges, in_idx)
    /\ ScanOn(in_idx, out_idx) =>
          /\ InBounds(in_edges, in_idx + 1)
          /\ InBounds(in_spectrum, in_idx)
          /\ InBounds(slopes, in_idx)

\* C21: for every input that rebin accepts, an input of no bins and one
\* edge and output edges outside the input range included, every read of
\* in_edges, in_spectrum and slopes is inside the array, the cursor is never
\* stepped back below 0, and the edge search ends: each of its tests reads
\* inside in_edges, whose end bounds the growing cursor, and the call does
\* not die.
C21_IndicesInBounds ==
    /\ pc = "search" => SearchReadsInBounds
    /\ pc = "scan" => ScanReadsInBounds
    /\ pc # "crash"

\* C10: a + b of two counts-based spectra of equal length and calibration
\* is counts-based with counts[i] = a.counts[i] + b.counts[i]; its livetime
\* is a.livetime + b.livetime when neither livetime is None, and otherwise
\* it is None and a warning is issued.
C10_AdditionOfCounts ==
    CountsPair("add") =>
        /\ IsSpectrum(last.res)
        /\ CountsBased(last.res)
        /\ \A i \in 1..SpecLen(last.self) :
              last.res._counts.array[i].v =
                  RAdd(last.self._counts.array[i].v,
                       last.other._counts.array[i].v)
        /\ IF last.self.livetime # None /\ last.other.livetime # None
           THEN last.res.livetime =
                    RAdd(last.self.livetime, last.other.livetime)
           ELSE last.res.livetime = None /\ last.warn # ""

====
